---- MODULE Spec2Model ----
(***************************************************************************)
(* A model of py21cmmc/_21cmfast/wrapper.py: the parameter structures'     *)
(* validation (FlagOptions._logic) and the three orchestration functions   *)
(* initial_conditions, perturb_field and ionize_box with their on-disk     *)
(* cache.  Every call of a function is one atomic step; the variables      *)
(* call, engine, reads, writes, ret and outcome record what the call was   *)
(* given and what it did, until the caller has taken the result and is     *)
(* ready for its next call.                                                *)
(*                                                                         *)
(* Redshifts are integers in units of 1e-5 (70000 is z = 7.0).  A box's    *)
(* "data" is the random seed ComputeInitialConditions was run with at the  *)
(* root of the computation the numbers in the box come from.               *)
(***************************************************************************)
EXTENDS Integers, Sequences, FiniteSets

VARIABLES cache, ncalls, call, engine, reads, writes, ret, outcome, flags, flagOutcome

vars == <<cache, ncalls, call, engine, reads, writes, ret, outcome, flags, flagOutcome>>

\* ---------------------------------------------------------------- bounds
MaxCalls == 2
MaxSeed == 2

Seeds == 1..MaxSeed

\* ------------------------------------------------------- parameter sets
\* redshift=None
NoRedshift == -1

\* The redshifts calls are made with: 7.0, 7.00001 and 8.0.
Redshifts == {70000, 70001, 80000}

\* UserParams(): the defaults.
DefaultUserParams == [none |-> FALSE, HII_DIM |-> 100]

\* UserParams(HII_DIM=50)
OtherUserParams == [none |-> FALSE, HII_DIM |-> 50]

UserValues == {DefaultUserParams, OtherUserParams}

\* user_params=None
NoUserParams == [none |-> TRUE, HII_DIM |-> 0]

\* CosmoParams(): RANDOM_SEED = None is 0 here.
DefaultCosmoParams == [none |-> FALSE, RANDOM_SEED |-> 0]

\* cosmo_params=None
NoCosmoParams == [none |-> TRUE, RANDOM_SEED |-> 0]

\* The RANDOM_SEED property: a falsy stored seed is replaced by a random one.
RANDOM_SEED(cosmo_params) ==
  IF cosmo_params.RANDOM_SEED = 0 THEN Seeds ELSE {cosmo_params.RANDOM_SEED}

\* A CosmoParams whose seed has been drawn.
Seeded(s) == [none |-> FALSE, RANDOM_SEED |-> s]

\* The astro_params instance ionize_box is called with.
DefaultAstroParams == "AstroParams"

\* ------------------------------------------------------------ FlagOptions
FlagNames ==
  {"INCLUDE_ZETA_PL", "SUBCELL_RSD", "USE_FCOLL_IONISATION_TABLE", "SHORTEN_FCOLL",
   "INHOMO_RECO", "GenerateNewICs", "USE_TS_FLUCT"}

\* FlagOptions._defaults_; GenerateNewICs and USE_TS_FLUCT, which _logic reads,
\* have no default there and are FALSE in this instance.
DefaultFlagOptions == [n \in FlagNames |-> FALSE]

\* Every combination of the attributes _logic reads.
FlagInstances == [FlagNames -> BOOLEAN]

\* _logic without its check of the f_coll table against inhomogeneous
\* recombinations.
LogicNoTableCheck(f) ==
  IF f.GenerateNewICs /\ (f.USE_FCOLL_IONISATION_TABLE \/ f.SHORTEN_FCOLL) THEN "ValueError"
  ELSE IF f.USE_TS_FLUCT /\ f.INCLUDE_ZETA_PL THEN "NotImplementedError"
  ELSE IF f.INHOMO_RECO /\ f.USE_TS_FLUCT THEN "ValueError"
  ELSE "ok"

\* FlagOptions._logic: the first check that fires raises.
Logic(f) ==
  IF f.GenerateNewICs /\ (f.USE_FCOLL_IONISATION_TABLE \/ f.SHORTEN_FCOLL) THEN "ValueError"
  ELSE IF f.USE_TS_FLUCT /\ f.INCLUDE_ZETA_PL THEN "NotImplementedError"
  ELSE IF f.USE_FCOLL_IONISATION_TABLE /\ f.INHOMO_RECO THEN "ValueError"
  ELSE IF f.INHOMO_RECO /\ f.USE_TS_FLUCT THEN "ValueError"
  ELSE "ok"

\* ---------------------------------------------------------- output boxes
\* init_boxes=None, perturbed_field=None, and the result of a call that raised.
NoBox ==
  [cls |-> "None", user_params |-> NoUserParams, cosmo_params |-> NoCosmoParams,
   redshift |-> NoRedshift, astro_params |-> "None", flag_options |-> DefaultFlagOptions,
   filled |-> FALSE, data |-> 0]

IsNone(box) == box.cls = "None"

\* InitialConditions(user_params, cosmo_params)
InitialConditions(user_params, cosmo_params) ==
  [cls |-> "InitialConditions", user_params |-> user_params, cosmo_params |-> cosmo_params,
   redshift |-> NoRedshift, astro_params |-> "None", flag_options |-> DefaultFlagOptions,
   filled |-> FALSE, data |-> 0]

\* PerturbedField(user_params, cosmo_params, redshift)
PerturbedField(user_params, cosmo_params, redshift) ==
  [cls |-> "PerturbedField", user_params |-> user_params, cosmo_params |-> cosmo_params,
   redshift |-> redshift, astro_params |-> "None", flag_options |-> DefaultFlagOptions,
   filled |-> FALSE, data |-> 0]

\* IonizedBox(...) or TsBox(...), as do_spin_temp chooses.
IonizedBox(do_spin_temp, user_params, cosmo_params, redshift, astro_params, flag_options) ==
  [cls |-> IF do_spin_temp THEN "TsBox" ELSE "IonizedBox",
   user_params |-> user_params, cosmo_params |-> cosmo_params,
   redshift |-> redshift, astro_params |-> astro_params, flag_options |-> flag_options,
   filled |-> FALSE, data |-> 0]

\* "%.4f" % redshift: the redshift rounded to four decimals (units of 1e-4).
Fmt4(redshift) == (redshift + 5) \div 10

\* The name a box is stored under: the class id, the parameters that produced it
\* without the random seed and, for a PerturbedField, the formatted redshift.
\* A PerturbedField has _id = "InitialConditions".
Group(box) ==
  [id |-> IF box.cls = "PerturbedField" THEN "InitialConditions" ELSE box.cls,
   user_params |-> box.user_params,
   redshift |-> IF box.cls = "PerturbedField" THEN Fmt4(box.redshift) ELSE box.redshift,
   suffix |-> box.cls = "PerturbedField",
   astro_params |-> box.astro_params, flag_options |-> box.flag_options]

\* No entry: what a read that raised IOError found.
NoEntry == [group |-> Group(NoBox), seed |-> 0, data |-> 0]

\* What write() stores for a box.
EntryOf(box) ==
  [group |-> Group(box), seed |-> box.cosmo_params.RANDOM_SEED, data |-> box.data]

\* OutputStruct.write: the box replaces what was stored under its name and seed.
Write(c, box) ==
  {e \in c : ~(e.group = Group(box) /\ e.seed = box.cosmo_params.RANDOM_SEED)}
    \cup {EntryOf(box)}

\* The entries OutputStruct.read may read in: those of the box's name, and of its
\* random seed as well when match_seed is set.
Found(c, box, match_seed) ==
  {e \in c : e.group = Group(box)
             /\ (match_seed => e.seed = box.cosmo_params.RANDOM_SEED)}

\* OutputStruct.read on a hit: the box holds the stored numbers.
ReadInto(box, e) == [box EXCEPT !.filled = TRUE, !.data = e.data]

\* --------------------------------------------------- one pipeline stage
\* What a call (or a part of one) did: the box it returns, the cache it leaves,
\* the engine functions it invoked, the cache reads it attempted and the
\* entries it wrote, in order.
Run(box, c, eng, rds, wrs, out) ==
  [ret |-> box, cache |-> c, engine |-> eng, reads |-> rds, writes |-> wrs, outcome |-> out]

\* An input box that was passed in and is used as it is.
Given(box, c) == Run(box, c, <<>>, <<>>, <<>>, "ok")

\* `if not regenerate:` taken the wrong way round.
TryReadInverted(regenerate) == regenerate

\* `if not regenerate:` before the cache read of a stage.
TryRead(regenerate) == ~regenerate

\* `if write:` after the engine call of a stage.
DoWrite(write) == write

\* The engine call without `filled = True` after it.
ComputedNotMarked(box, data) == [box EXCEPT !.data = data]

\* lib.Compute...(...); box.filled = True
Computed(box, data) == [box EXCEPT !.filled = TRUE, !.data = data]

\* One read attempt, as recorded in reads.
ReadOf(box, match_seed, hit) ==
  [cls |-> box.cls, seed |-> box.cosmo_params.RANDOM_SEED, match_seed |-> match_seed,
   hit |-> hit]

\* One engine call, as recorded in engine.
EngineCall(fn, input_filled) == [fn |-> fn, input_filled |-> input_filled]

\* The body every orchestration function ends with: read the box from the cache
\* unless regenerating and return it on a hit; on IOError run the engine function
\* fn, mark the box filled, write it if asked and return it.
StageRuns(c, box, regenerate, write, match_seed, fn, input_filled, data) ==
  LET found == IF TryRead(regenerate) THEN Found(c, box, match_seed) ELSE {}
      computed == Computed(box, data)
  IN  IF found # {}
      THEN {Run(ReadInto(box, e), c, <<>>, <<ReadOf(box, match_seed, e)>>, <<>>, "ok") :
              e \in found}
      ELSE {Run(computed,
                IF DoWrite(write) THEN Write(c, computed) ELSE c,
                <<EngineCall(fn, input_filled)>>,
                IF TryRead(regenerate) THEN <<ReadOf(box, match_seed, NoEntry)>> ELSE <<>>,
                IF DoWrite(write) THEN <<EntryOf(computed)>> ELSE <<>>,
                "ok")}

\* A stage run after an earlier part of the same call.
After(first, second) ==
  Run(second.ret, second.cache, first.engine \o second.engine,
      first.reads \o second.reads, first.writes \o second.writes, second.outcome)

\* ----------------------------------------------------- initial_conditions
\* initial_conditions(user_params, cosmo_params, regenerate, write, match_seed),
\* cosmo_params with its seed drawn.
InitialConditionsRuns(c, user_params, cosmo_params, regenerate, write, match_seed) ==
  StageRuns(c, InitialConditions(user_params, cosmo_params), regenerate, write,
            match_seed, "ComputeInitialConditions", TRUE, cosmo_params.RANDOM_SEED)

\* ---------------------------------------------------------- perturb_field
\* `user_params = user_params or UserParams()`
UserOrDefault(user_params) == IF user_params.none THEN DefaultUserParams ELSE user_params

\* `cosmo_params = cosmo_params or CosmoParams()`
CosmoOrDefault(cosmo_params) ==
  IF cosmo_params.none THEN DefaultCosmoParams ELSE cosmo_params

\* `if init_boxes is None` alone: an unfilled box is used as it is.
NeedsInitBoxesNoneOnly(init_boxes) == IsNone(init_boxes)

\* `if init_boxes is None or not init_boxes.filled:`
NeedsInitBoxes(init_boxes) == IsNone(init_boxes) \/ ~init_boxes.filled

\* initial_conditions called without regenerate: its default, False.
InnerRegenerateDefault(regenerate) == FALSE

\* regenerate=regenerate in the calls of initial_conditions and perturb_field.
InnerRegenerate(regenerate) == regenerate

\* initial_conditions called without write: its default, True.
InnerWriteDefault(write) == TRUE

\* write=write in the calls of initial_conditions and perturb_field.
InnerWrite(write) == write

\* perturb_field calls initial_conditions without match_seed: its default, False.
InitMatchSeed(match_seed) == FALSE

\* match_seed=match_seed in ionize_box's call of perturb_field.
PerturbMatchSeed(match_seed) == match_seed

\* perturb_field(redshift, init_boxes, user_params, cosmo_params, regenerate, write,
\* match_seed).  float(None) in PerturbedField.__init__ raises TypeError.
PerturbFieldRuns(c, redshift, init_boxes, user_params_arg, cosmo_params_arg, regenerate, write, match_seed) ==
  LET user_params == UserOrDefault(IF ~IsNone(init_boxes) THEN init_boxes.user_params
                                   ELSE user_params_arg)
      cosmo == CosmoOrDefault(IF ~IsNone(init_boxes) THEN init_boxes.cosmo_params
                              ELSE cosmo_params_arg)
      FieldsRuns(cosmo_params, ic) ==
        IF redshift = NoRedshift
        THEN {Run(NoBox, ic.cache, ic.engine, ic.reads, ic.writes, "TypeError")}
        ELSE {After(ic, r) :
                r \in StageRuns(ic.cache, PerturbedField(user_params, cosmo_params, redshift),
                                regenerate, write, match_seed, "ComputePerturbField",
                                ic.ret.filled, ic.ret.data)}
      WithSeed(cosmo_params) ==
        UNION {FieldsRuns(cosmo_params, ic) :
                 ic \in IF NeedsInitBoxes(init_boxes)
                        THEN InitialConditionsRuns(c, user_params, cosmo_params,
                                                   InnerRegenerate(regenerate),
                                                   InnerWrite(write),
                                                   InitMatchSeed(match_seed))
                        ELSE {Given(init_boxes, c)}}
  IN  UNION {WithSeed(Seeded(s)) : s \in RANDOM_SEED(cosmo)}

\* ------------------------------------------------------------- ionize_box
\* The first test of ionize_box with the test of perturbed_field inverted.
MissingRedshiftInverted(perturbed_field, redshift) ==
  ~IsNone(perturbed_field) /\ redshift = NoRedshift

\* `if perturbed_field is None and redshift is None:`
MissingRedshift(perturbed_field, redshift) ==
  IsNone(perturbed_field) /\ redshift = NoRedshift

\* `if perturbed_field is None or not perturbed_field.filled:`
NeedsPerturbedField(perturbed_field) == IsNone(perturbed_field) \/ ~perturbed_field.filled

\* ionize_box(astro_params, flag_options, redshift, perturbed_field, init_boxes,
\* cosmo_params, user_params, regenerate, write, match_seed, do_spin_temp)
IonizeBoxRuns(c, astro_params, flag_options, redshift_arg, perturbed_field_arg, init_boxes, cosmo_params, user_params, regenerate, write, match_seed, do_spin_temp) ==
  IF MissingRedshift(perturbed_field_arg, redshift_arg)
  THEN {Run(NoBox, c, <<>>, <<>>, <<>>, "ValueError")}
  ELSE
    LET redshift == IF ~IsNone(perturbed_field_arg) THEN perturbed_field_arg.redshift
                    ELSE redshift_arg
        BoxRuns(pf) ==
          IF pf.outcome # "ok" THEN {pf}
          ELSE {After(pf, r) :
                  r \in StageRuns(pf.cache,
                                  IonizedBox(do_spin_temp, pf.ret.user_params,
                                             pf.ret.cosmo_params, redshift, astro_params,
                                             flag_options),
                                  regenerate, write, match_seed,
                                  IF do_spin_temp THEN "ComputeTsBox"
                                  ELSE "ComputeIonizedBox",
                                  pf.ret.filled, pf.ret.data)}
    IN  UNION {BoxRuns(pf) :
                 pf \in IF NeedsPerturbedField(perturbed_field_arg)
                        THEN PerturbFieldRuns(c, redshift, init_boxes, user_params,
                                              cosmo_params, InnerRegenerate(regenerate),
                                              InnerWrite(write), PerturbMatchSeed(match_seed))
                        ELSE {Given(perturbed_field_arg, c)}}

\* ------------------------------------------------------------ the inputs
\* user_params=None, or an instance.
UserArgs == {NoUserParams, OtherUserParams}

\* cosmo_params=None, or an instance with a seed.
CosmoArgs == {NoCosmoParams} \cup {Seeded(s) : s \in Seeds}

\* An InitialConditions instance for the default user parameters and seed 1,
\* filled by the engine or not.
InitBoxes ==
  {[InitialConditions(DefaultUserParams, Seeded(1)) EXCEPT
      !.filled = f, !.data = IF f THEN 1 ELSE 0] : f \in BOOLEAN}

\* A PerturbedField instance for the default user parameters, seed 1 and z = 7.0,
\* filled by the engine or not.
PerturbedFields ==
  {[PerturbedField(DefaultUserParams, Seeded(1), 70000) EXCEPT
      !.filled = f, !.data = IF f THEN 1 ELSE 0] : f \in BOOLEAN}

\* redshift=None, 7.0 or 8.0 in a call of ionize_box.
BoxRedshifts == {NoRedshift, 70000, 80000}

\* The arguments of the most recent call that the properties speak of.
NoCall ==
  [fn |-> "none", redshift |-> NoRedshift, perturbed_field |-> NoBox, init_boxes |-> NoBox,
   regenerate |-> FALSE, write |-> FALSE, match_seed |-> FALSE, do_spin_temp |-> FALSE]

\* ------------------------------------------------------------- the steps
Init ==
  /\ cache = {}
  /\ ncalls = 0
  /\ call = NoCall
  /\ engine = <<>>
  /\ reads = <<>>
  /\ writes = <<>>
  /\ ret = NoBox
  /\ outcome = "none"
  /\ flags = DefaultFlagOptions
  /\ flagOutcome = "none"

\* The call's effects become the state.
Returns(r) ==
  /\ cache' = r.cache
  /\ engine' = r.engine
  /\ reads' = r.reads
  /\ writes' = r.writes
  /\ ret' = r.ret
  /\ outcome' = r.outcome
  /\ ncalls' = ncalls + 1
  /\ UNCHANGED <<flags, flagOutcome>>

\* A call of initial_conditions.
initial_conditions ==
  /\ call.fn = "none"
  /\ ncalls < MaxCalls
  /\ \E user_params \in UserValues, c \in {DefaultCosmoParams} \cup {Seeded(s) : s \in Seeds},
        regenerate \in BOOLEAN, write \in BOOLEAN, match_seed \in BOOLEAN :
       \E s \in RANDOM_SEED(c) :
         \E r \in InitialConditionsRuns(cache, user_params, Seeded(s), regenerate, write,
                                        match_seed) :
           /\ call' = [NoCall EXCEPT !.fn = "initial_conditions",
                                     !.regenerate = regenerate, !.write = write,
                                     !.match_seed = match_seed]
           /\ Returns(r)

\* A call of perturb_field.
perturb_field ==
  /\ call.fn = "none"
  /\ ncalls < MaxCalls
  /\ \E redshift \in Redshifts, init_boxes \in {NoBox} \cup InitBoxes,
        user_params \in UserArgs, cosmo_params \in CosmoArgs,
        regenerate \in BOOLEAN, write \in BOOLEAN, match_seed \in BOOLEAN :
       \E r \in PerturbFieldRuns(cache, redshift, init_boxes, user_params, cosmo_params,
                                 regenerate, write, match_seed) :
         /\ call' = [NoCall EXCEPT !.fn = "perturb_field", !.redshift = redshift,
                                   !.init_boxes = init_boxes,
                                   !.regenerate = regenerate, !.write = write,
                                   !.match_seed = match_seed]
         /\ Returns(r)

\* A call of ionize_box, with the default astro_params and flag_options and
\* without user_params; the init_boxes it is given are filled ones.
ionize_box ==
  /\ call.fn = "none"
  /\ ncalls < MaxCalls
  /\ \E redshift \in BoxRedshifts,
        perturbed_field \in {NoBox} \cup PerturbedFields,
        init_boxes \in {NoBox} \cup {b \in InitBoxes : b.filled},
        user_params \in {NoUserParams}, cosmo_params \in CosmoArgs,
        regenerate \in BOOLEAN, write \in BOOLEAN, match_seed \in BOOLEAN,
        do_spin_temp \in BOOLEAN :
       \E r \in IonizeBoxRuns(cache, DefaultAstroParams, DefaultFlagOptions, redshift,
                              perturbed_field, init_boxes, cosmo_params, user_params,
                              regenerate, write, match_seed, do_spin_temp) :
         /\ call' = [fn |-> "ionize_box", redshift |-> redshift,
                     perturbed_field |-> perturbed_field, init_boxes |-> init_boxes,
                     regenerate |-> regenerate, write |-> write,
                     match_seed |-> match_seed, do_spin_temp |-> do_spin_temp]
         /\ Returns(r)

\* The caller has taken what the call returned (or raised): nothing of the call
\* is left but what it wrote to the cache.
Done ==
  /\ call.fn # "none"
  /\ call' = NoCall
  /\ engine' = <<>>
  /\ reads' = <<>>
  /\ writes' = <<>>
  /\ ret' = NoBox
  /\ outcome' = "none"
  /\ UNCHANGED <<cache, ncalls, flags, flagOutcome>>

Next == initial_conditions \/ perturb_field \/ ionize_box \/ Done

Spec == Init /\ [][Next]_vars

\* FlagOptions(**kwargs): the instance is validated by _logic as it is constructed.
FlagOptions ==
  \E f \in FlagInstances :
    /\ flags' = f
    /\ flagOutcome' = Logic(f)
    /\ UNCHANGED <<cache, ncalls, call, engine, reads, writes, ret, outcome>>

FlagNext == FlagOptions

FlagSpec == Init /\ [][FlagNext]_vars

\* ------------------------------------------------------ the properties
\* The engine function that computes a box of class cls.
StageFn(cls) ==
  CASE cls = "InitialConditions" -> "ComputeInitialConditions"
    [] cls = "PerturbedField" -> "ComputePerturbField"
    [] cls = "IonizedBox" -> "ComputeIonizedBox"
    [] cls = "TsBox" -> "ComputeTsBox"
    [] OTHER -> "none"

\* The engine function whose result is stored under group g.
GroupFn(g) == IF g.suffix THEN "ComputePerturbField" ELSE StageFn(g.id)

\* How often the most recent call invoked engine function fn.
EngineCount(eng, fn) == Cardinality({i \in DOMAIN eng : eng[i].fn = fn})

\* The engine functions a call runs when every stage it goes through computes.
AllStages(c) ==
  LET ic == IF IsNone(c.init_boxes) \/ ~c.init_boxes.filled
            THEN <<"ComputeInitialConditions">> ELSE <<>>
      pf == ic \o <<"ComputePerturbField">>
  IN  CASE c.fn = "initial_conditions" -> <<"ComputeInitialConditions">>
        [] c.fn = "perturb_field" -> pf
        [] c.fn = "ionize_box" ->
             (IF IsNone(c.perturbed_field) \/ ~c.perturbed_field.filled THEN pf ELSE <<>>)
               \o <<IF c.do_spin_temp THEN "ComputeTsBox" ELSE "ComputeIonizedBox">>
        [] OTHER -> <<>>

\* C1 (as claimed): a call of perturb_field or ionize_box with regenerate=False
\* that finds the cache holding an entry for the box it is to return invokes no
\* engine function at all.
C1_CachedStageInvokesNoEngine ==
  [][(/\ call'.fn \in {"perturb_field", "ionize_box"}
      /\ ~call'.regenerate
      /\ outcome' = "ok"
      /\ Found(cache, ret', call'.match_seed) # {})
     => engine' = <<>>]_vars

\* C2: when the cache holds an entry stored under the name (and, with match_seed,
\* the seed) of the box a call with regenerate=False is to return, the call's read
\* of that box hits, the box returned is filled with the numbers of such an entry
\* and the engine function of that stage is not invoked.  Every entry of the cache
\* was written by an earlier call that computed it with write=True; parameter
\* sets are compared by value.
C2_CacheRoundTrip ==
  [][(/\ ~call'.regenerate
      /\ outcome' = "ok"
      /\ Found(cache, ret', call'.match_seed) # {})
     => /\ ret'.filled
        /\ EngineCount(engine', StageFn(ret'.cls)) = 0
        /\ reads' # <<>>
        /\ reads'[Len(reads')].hit \in Found(cache, ret', call'.match_seed)
        /\ ret'.data = reads'[Len(reads')].hit.data]_vars

\* C2's case: a second call of perturb_field returned a box it read from the
\* cache, which the first call had written.
C2_Witness ==
  /\ ncalls = 2
  /\ call.fn = "perturb_field"
  /\ ~call.regenerate
  /\ call.match_seed
  /\ reads # <<>>
  /\ reads[Len(reads)].hit # NoEntry
  /\ EngineCount(engine, "ComputePerturbField") = 0
  /\ ret.filled

\* C3: with regenerate=False, every cache read that misses is followed by exactly
\* one invocation of the engine function of that stage; the call does not raise
\* and returns a filled box.
C3_MissComputes ==
  ~call.regenerate =>
    \A i \in DOMAIN reads :
      reads[i].hit = NoEntry =>
        /\ outcome = "ok"
        /\ EngineCount(engine, StageFn(reads[i].cls)) = 1
        /\ ret.filled

\* C3's case: ionize_box missed the cache at all three stages.
C3_Witness ==
  /\ call.fn = "ionize_box"
  /\ ~call.regenerate
  /\ Len(reads) = 3
  /\ \A i \in DOMAIN reads : reads[i].hit = NoEntry
  /\ Len(engine) = 3
  /\ ret.filled

\* C4: a call with regenerate=True attempts no cache read and invokes the engine
\* function of every stage it goes through: its own, and each earlier one whose
\* input box was not supplied or not filled.
C4_RegenerateNeverReads ==
  (call.regenerate /\ outcome = "ok") =>
    /\ reads = <<>>
    /\ [i \in DOMAIN engine |-> engine[i].fn] = AllStages(call)

\* C4's case: ionize_box regenerated all three stages although the cache held an
\* entry for the box it returns (write=False: the entry was there before).
C4_Witness ==
  /\ call.fn = "ionize_box"
  /\ call.regenerate
  /\ ~call.write
  /\ Len(engine) = 3
  /\ Found(cache, ret, FALSE) # {}

\* C5 (as claimed): in a call of perturb_field or ionize_box with match_seed=True
\* and regenerate=False, a box read from the cache and then used (returned, or
\* handed to the engine function of the next stage) was stored under the random
\* seed the read was made for.
C5_SeedMatchedAtEveryStage ==
  (call.fn \in {"perturb_field", "ionize_box"} /\ call.match_seed /\ ~call.regenerate) =>
    \A i \in DOMAIN reads :
      (/\ reads[i].hit # NoEntry
       /\ (i = Len(reads) \/ reads[i + 1].hit = NoEntry))
      => reads[i].hit.seed = reads[i].seed

\* C6: the entries a call writes are those of the stages whose engine function it
\* invoked, in that order, when write=True, and none when write=False; the cache
\* changes by these writes alone.
C6_WriteThrough ==
  [][/\ [i \in DOMAIN writes' |-> GroupFn(writes'[i].group)]
          = (IF call'.write THEN [i \in DOMAIN engine' |-> engine'[i].fn] ELSE <<>>)
     /\ {writes'[i] : i \in DOMAIN writes'} \subseteq cache'
     /\ cache' \subseteq cache \cup {writes'[i] : i \in DOMAIN writes'}
     /\ (~call'.write => cache' = cache)]_vars

\* C6's case: ionize_box with write=True read the first two stages from the cache
\* and computed and wrote the third alone.
C6_Witness ==
  /\ call.fn = "ionize_box"
  /\ call.write
  /\ Len(reads) = 3
  /\ reads[1].hit # NoEntry
  /\ reads[2].hit # NoEntry
  /\ Len(engine) = 1
  /\ Len(writes) = 1

C8_ReturnedBoxesFilled ==
  outcome = "ok" =>
    /\ ret.filled
    /\ \A i \in DOMAIN engine : engine[i].input_filled

\* C8's case: perturb_field was given an unfilled InitialConditions instance, read
\* the initial conditions from the cache and ran ComputePerturbField on them.
C8_Witness ==
  /\ call.fn = "perturb_field"
  /\ ~IsNone(call.init_boxes)
  /\ ~call.init_boxes.filled
  /\ Len(reads) = 2
  /\ reads[1].hit # NoEntry
  /\ EngineCount(engine, "ComputePerturbField") = 1
  /\ ret.filled

\* C9: ionize_box called with perturbed_field=None and redshift=None raises
\* ValueError and does nothing else: no cache read, no write, no engine call, no
\* box, and the cache is as it was.
C9_MissingRedshiftRaisesFirst ==
  [][(/\ call'.fn = "ionize_box"
      /\ IsNone(call'.perturbed_field)
      /\ call'.redshift = NoRedshift)
     => /\ outcome' = "ValueError"
        /\ cache' = cache
        /\ engine' = <<>>
        /\ reads' = <<>>
        /\ writes' = <<>>
        /\ ret' = NoBox]_vars

\* C9's case: such a call was made with init_boxes given, regenerate and write
\* set, and a cache that holds entries.
C9_Witness ==
  /\ call.fn = "ionize_box"
  /\ IsNone(call.perturbed_field)
  /\ call.redshift = NoRedshift
  /\ ~IsNone(call.init_boxes)
  /\ call.regenerate
  /\ call.write
  /\ cache # {}
  /\ outcome = "ValueError"

\* C10 (as claimed): a FlagOptions with INHOMO_RECO and without USE_TS_FLUCT is
\* rejected with ValueError, and one with INHOMO_RECO, USE_TS_FLUCT and no other
\* flag set is accepted.
C10_InhomoNeedsSpinTemp ==
  flagOutcome # "none" =>
    /\ (flags.INHOMO_RECO /\ ~flags.USE_TS_FLUCT) => flagOutcome = "ValueError"
    /\ flags = [DefaultFlagOptions EXCEPT !.INHOMO_RECO = TRUE, !.USE_TS_FLUCT = TRUE]
         => flagOutcome = "ok"

\* C11 (as claimed): whenever ionize_box is called with a perturbed_field, filled
\* or not, and returns, the box it returns carries that perturbed_field's own
\* user_params, cosmo_params and redshift.
C11_BoxTaggedWithPerturbedField ==
  (call.fn = "ionize_box" /\ ~IsNone(call.perturbed_field) /\ outcome = "ok") =>
    /\ ret.user_params = call.perturbed_field.user_params
    /\ ret.cosmo_params = call.perturbed_field.cosmo_params
    /\ ret.redshift = call.perturbed_field.redshift

====
